---- MODULE Spec2Model ----
(***************************************************************************)
(* i3pystatus: the streaming protocol engine of src/i3pystatus/__init__.py *)
(* (IOHandler, StandaloneIO, JSONIO, the module threads and                *)
(* i3pystatus.register / i3pystatus.run).                                  *)
(*                                                                         *)
(* A line is a sequence of lexemes: the characters "[", "]", "{", "}",     *)
(* ":", ",", " " and the digit "1", plus whole string literals and the     *)
(* word null.  The line terminator is not part of a line.                  *)
(***************************************************************************)
EXTENDS Integers, Sequences, FiniteSets, TLC

(* ------------------------------ bounds --------------------------------- *)
\* longest raw line enumerated exhaustively over Alphabet
MaxLineLen == 2
\* number of tick lines read by one run before the model stops reading
MaxTicks == 2
\* number of reads followed on a free-standing simulator
MaxReads == 6
\* largest registry of the merge specification
MaxModules == 3
\* positions range over -MaxPos .. MaxPos
MaxPos == 3
\* longest input array of the merge specification
MaxArrayLen == 2
\* number of failing register calls followed in the registration specification
MaxFailedCalls == 1
\* longest `required` tuple and longest keyword mapping of a constructor call
MaxKeys == 2

(* --------------------------- JSON values -------------------------------- *)
\* Python values are tagged tuples:
\*   <<"null">>  <<"num", digits>>  <<"str", literal>>
\*   <<"arr", <<v1, ..., vn>>>>  <<"obj", << <<k1, v1>>, ... >>>>
Digits == {"1"}
StrLex == {"\"x\"", "\"version\"", "\"A\"", "\"B\"", "\"C\"", "\"tick\""}
None == <<"null">>
Str(s) == <<"str", s>>
Arr(items) == <<"arr", items>>

RECURSIVE SkipWs(_, _)
\* json.decoder WHITESPACE.match: first index >= i that is not whitespace
SkipWs(t, i) ==
  IF i <= Len(t) /\ t[i] = " " THEN SkipWs(t, i + 1) ELSE i

RECURSIVE DigitsEnd(_, _)
\* json.scanner NUMBER_RE: end of the digit run starting at i
DigitsEnd(t, i) ==
  IF i <= Len(t) /\ t[i] \in Digits THEN DigitsEnd(t, i + 1) ELSE i

ParseFail == [ok |-> FALSE, val |-> None, next |-> 0]
ParseOk(v, k) == [ok |-> TRUE, val |-> v, next |-> k]

RECURSIVE PutKey(_, _, _)
\* dict[k] = v on an insertion-ordered dict held as a sequence of pairs
PutKey(d, k, v) ==
  IF d = <<>> THEN << <<k, v>> >>
  ELSE IF Head(d)[1] = k THEN << <<k, v>> >> \o Tail(d)
  ELSE << Head(d) >> \o PutKey(Tail(d), k, v)

RECURSIVE ParseValue(_, _)
RECURSIVE ParseElems(_, _, _)
RECURSIVE ParseMembers(_, _, _)

\* json.decoder.JSONArray after the first element position
ParseElems(t, i, acc) ==
  LET r == ParseValue(t, i) IN
  IF ~r.ok THEN ParseFail
  ELSE LET k == SkipWs(t, r.next) IN
       IF k > Len(t) THEN ParseFail
       ELSE IF t[k] = "]" THEN ParseOk(Arr(Append(acc, r.val)), k + 1)
       ELSE IF t[k] = "," THEN ParseElems(t, SkipWs(t, k + 1), Append(acc, r.val))
       ELSE ParseFail

\* json.decoder.JSONObject after the first key position
ParseMembers(t, i, acc) ==
  IF i > Len(t) \/ (i <= Len(t) /\ t[i] \notin StrLex) THEN ParseFail
  ELSE LET c == SkipWs(t, i + 1) IN
       IF c > Len(t) \/ (c <= Len(t) /\ t[c] # ":") THEN ParseFail
       ELSE LET r == ParseValue(t, SkipWs(t, c + 1)) IN
            IF ~r.ok THEN ParseFail
            ELSE LET k == SkipWs(t, r.next) IN
                 IF k > Len(t) THEN ParseFail
                 ELSE IF t[k] = "}" THEN ParseOk(<<"obj", PutKey(acc, t[i], r.val)>>, k + 1)
                 ELSE IF t[k] = ","
                      THEN ParseMembers(t, SkipWs(t, k + 1), PutKey(acc, t[i], r.val))
                 ELSE ParseFail

\* json.scanner scan_once: one JSON value starting at i
ParseValue(t, i) ==
  IF i > Len(t) THEN ParseFail
  ELSE IF t[i] = "[" THEN
         LET k == SkipWs(t, i + 1) IN
         IF k <= Len(t) /\ t[k] = "]" THEN ParseOk(Arr(<<>>), k + 1)
         ELSE ParseElems(t, k, <<>>)
  ELSE IF t[i] = "{" THEN
         LET k == SkipWs(t, i + 1) IN
         IF k <= Len(t) /\ t[k] = "}" THEN ParseOk(<<"obj", <<>>>>, k + 1)
         ELSE ParseMembers(t, k, <<>>)
  ELSE IF t[i] \in Digits THEN
         LET e == DigitsEnd(t, i) IN ParseOk(<<"num", SubSeq(t, i, e - 1)>>, e)
  ELSE IF t[i] \in StrLex THEN ParseOk(Str(t[i]), i + 1)
  ELSE IF t[i] = "null" THEN ParseOk(None, i + 1)
  ELSE ParseFail

\* json.loads: leading whitespace, one value, trailing whitespace, end
loads(t) ==
  LET r == ParseValue(t, SkipWs(t, 1)) IN
  IF r.ok /\ SkipWs(t, r.next) > Len(t)
  THEN [ok |-> TRUE, val |-> r.val]
  ELSE [ok |-> FALSE, val |-> None]

RECURSIVE dumps(_)
RECURSIVE DumpItems(_)
RECURSIVE DumpPairs(_)
\* elements joined by the default item separator ", "
DumpItems(items) ==
  IF items = <<>> THEN <<>>
  ELSE dumps(Head(items))
       \o (IF Len(items) > 1 THEN <<",", " ">> ELSE <<>>)
       \o DumpItems(Tail(items))

\* members joined by ", ", key and value by the default key separator ": "
DumpPairs(ps) ==
  IF ps = <<>> THEN <<>>
  ELSE << Head(ps)[1], ":", " " >> \o dumps(Head(ps)[2])
       \o (IF Len(ps) > 1 THEN <<",", " ">> ELSE <<>>)
       \o DumpPairs(Tail(ps))

\* json.dumps with the default separators (", ", ": ")
dumps(v) ==
  IF v[1] = "null" THEN <<"null">>
  ELSE IF v[1] = "num" THEN v[2]
  ELSE IF v[1] = "str" THEN <<v[2]>>
  ELSE IF v[1] = "arr" THEN <<"[">> \o DumpItems(v[2]) \o <<"]">>
  ELSE <<"{">> \o DumpPairs(v[2]) \o <<"}">>

(* ------------------------------ strings --------------------------------- *)
RECURSIVE LStrip(_)
LStrip(s) == IF s # <<>> /\ Head(s) = " " THEN LStrip(Tail(s)) ELSE s

RECURSIVE RStrip(_)
RStrip(s) ==
  IF s # <<>> /\ s[Len(s)] = " " THEN RStrip(SubSeq(s, 1, Len(s) - 1)) ELSE s

\* str.strip()
Strip(s) == RStrip(LStrip(s))

\* str.startswith(",")
StartsWithComma(s) == s # <<>> /\ Head(s) = ","

(* ---------------------------- list.insert -------------------------------- *)
\* mutant: every element is inserted at the front
InsertIndexFront(len, i) == 0

\* list.insert(i, x): a negative index counts from the end, and the index
\* is clamped into 0 .. len
InsertIndex(len, i) ==
  LET k == IF i < 0 THEN i + len ELSE i IN
  IF k < 0 THEN 0 ELSE IF k > len THEN len ELSE k

\* mutant: the element is appended, whatever the index
insert_append(list, i, x) == Append(list, x)

insert(list, i, x) ==
  LET k == InsertIndex(Len(list), i) IN
  SubSeq(list, 1, k) \o <<x>> \o SubSeq(list, k + 1, Len(list))

(* ------------------------------ inputs ---------------------------------- *)
SeqsUpTo(S, k) == UNION {[1..m -> S] : m \in 0..k}

Alphabet == {"[", "]", ",", " ", "1"}

\* StandaloneIO.proto
proto ==
  << <<"{", "\"version\"", ":", " ", "1", "}">>,
     <<"[">>,
     <<"[", "]">>,
     <<",", "[", "]">> >>

\* the k-th line a host sends during the handshake (raw, before strip):
\* the version header, then the opening bracket, padded or not
HandshakeLines(k) ==
  IF k = 1 THEN {proto[1], proto[1] \o <<" ">>}
  ELSE {proto[2], <<" ", "[", " ">>}

\* longer tick lines of interest (raw, before strip)
ExampleLines ==
  { <<"[", "]">>,
    <<",", "[", "]">>,
    <<" ", ",", "[", "]", " ">>,
    <<",", " ", "[", "]">>,
    <<",", ",", "[", "]">>,
    <<"[", "1", ",", "1", "]">>,
    <<",", "[", "1", ",", " ", "1", "]">>,
    <<",", "[", "{", "\"x\"", ":", "1", "}", "]">>,
    <<",", "[", "{", "\"x\"", ":", " ", "1", "}", "]">>,
    <<"{", "\"x\"", ":", "1", "}">>,
    <<",", "[", "\"x\"", "]", "]">> }

TickLines == SeqsUpTo(Alphabet, MaxLineLen) \cup ExampleLines

\* what inp.readline() can do: deliver a line, report the end of the
\* stream (the empty string), or be interrupted
Deliveries(lines) ==
  {[kind |-> "line", raw |-> r] : r \in lines}
    \cup {[kind |-> "end", raw |-> <<>>], [kind |-> "interrupt", raw |-> <<>>]}

(* ------------------------------ modules --------------------------------- *)
\* module instances built by the user before registration
SyncMods == {"mA", "mB", "mC", "mD"}
PeriodicMods == {"mT"}
Mods == SyncMods \cup PeriodicMods

\* the output a subclass declares (Module.output is None)
ClassOutput(m) ==
  IF m = "mA" THEN Str("\"A\"")
  ELSE IF m = "mB" THEN Str("\"B\"")
  ELSE IF m = "mC" THEN Str("\"C\"")
  ELSE None

Sims == {"s1", "s2"}

VARIABLES
  io,        \* i3pystatus.io: "IOHandler" or "StandaloneIO"
  modules,   \* i3pystatus.modules, in registration order
  position,  \* Module.position of every instance
  output,    \* Module.output of every instance
  thread,    \* AsyncModule.thread: "unstarted", "run" or "sleep"
  pc,        \* where i3pystatus.run stands
  line,      \* the line read_line returned, until it is written back
  prefix,    \* parse_line's prefix
  j,         \* the value parse_line yields
  src,       \* for every element of j: the module that inserted it, or "input"
  mi,        \* index of the next module of the merge loop
  chan,      \* the operations performed on the engine's channel, in order
  result,    \* how run ended
  n,         \* StandaloneIO.n: the class attribute and the instance attributes
  reads,     \* the lines each simulator's read_line returned
  runner,    \* the engine whose run is executing ("none" before run)
  owner,     \* for every entry of modules: the engine register was called on
  reg,       \* register's locals module and position while a call is under way
  hooks,     \* how many times registered() was invoked on every instance
  calls,     \* the register calls made so far, with their outcome
  ctor       \* a Module.__init__ call: declaration, arguments and outcome

\* what only register and the constructor touch
regvars == <<runner, owner, reg, hooks, calls, ctor>>

vars == <<io, modules, position, output, thread, pc, line, prefix, j, src, mi,
          chan, result, n, reads, runner, owner, reg, hooks, calls, ctor>>

\* one operation on the channel: op is "read" or "write", line is the line
\* read_line returned or write_line was given, and why says what the stream
\* did on a read: "line", "blank" (a line empty once stripped), "end" or
\* "interrupt" ("out" on a write)
Op(op, l, why) == [op |-> op, line |-> l, why |-> why]

Arrival(d) ==
  IF d.kind = "line" /\ Strip(d.raw) = <<>> THEN "blank" ELSE d.kind

\* mutant: a line that is empty once stripped is returned like any other
read_line_noblank(d) ==
  IF d.kind = "interrupt" \/ d.kind = "end" THEN [exc |-> "EOFError", line |-> <<>>]
  ELSE [exc |-> "none", line |-> Strip(d.raw)]

\* IOHandler.read_line
read_line(d) ==
  IF d.kind = "interrupt" THEN [exc |-> "EOFError", line |-> <<>>]
  ELSE LET l == Strip(d.raw) IN
       IF l = <<>> THEN [exc |-> "EOFError", line |-> <<>>]
       ELSE [exc |-> "none", line |-> l]

\* StandaloneIO.n as seen from instance s
GetN(nn, s) == IF s \in DOMAIN nn THEN nn[s] ELSE nn["StandaloneIO"]

\* mutant: the increment lands on the class attribute
IncrNShared(nn, s) == [nn EXCEPT !["StandaloneIO"] = @ + 1]

\* self.n += 1
IncrN(nn, s) == (s :> (GetN(nn, s) + 1)) @@ nn

Min(a, b) == IF a < b THEN a ELSE b

\* StandaloneIO.read_line, after the increment
ProtoLine(k) == proto[Min(k, Len(proto) - 1) + 1]

RECURSIVE StripCommas(_)
StripCommas(l) == IF StartsWithComma(l) THEN StripCommas(Tail(l)) ELSE l

\* mutant: every leading comma is removed
parse_line_lstrip(l) ==
  LET r == loads(StripCommas(l))
  IN [ok |-> r.ok, prefix |-> IF StartsWithComma(l) THEN <<",">> ELSE <<>>, j |-> r.val]

\* parse_line up to the yield
parse_line(l) ==
  LET pre == IF StartsWithComma(l) THEN <<",">> ELSE <<>>
      body == IF StartsWithComma(l) THEN Tail(l) ELSE l
      r == loads(body)
  IN [ok |-> r.ok, prefix |-> pre, j |-> r.val]

\* mutant: the prefix is forgotten
ReplyNoPrefix(pre, v) == dumps(v)

\* parse_line after the yield: the line handed to write_line
Reply(pre, v) == pre \o dumps(v)

InputSrc(v) == IF v[1] = "arr" THEN [i \in 1..Len(v[2]) |-> "input"] ELSE <<>>

Engines == {"e1", "e2"}

\* register is not executing
NoReg == [module |-> "none", position |-> 0]

InitCommon ==
  /\ modules = <<>>
  /\ position = [m \in Mods |-> 0]
  /\ output = [m \in Mods |-> ClassOutput(m)]
  /\ thread = [m \in Mods |-> "unstarted"]
  /\ pc = "setup"
  /\ line = <<>>
  /\ prefix = <<>>
  /\ j = None
  /\ src = <<>>
  /\ mi = 0
  /\ chan = <<>>
  /\ result = "running"
  /\ n = [c \in {"StandaloneIO"} |-> -1]
  /\ reads = [s \in Sims |-> <<>>]
  /\ runner = "none"
  /\ owner = <<>>
  /\ reg = NoReg
  /\ hooks = [m \in Mods |-> 0]
  /\ calls = <<>>
  /\ ctor = <<>>

\* i3pystatus(standalone=False)
Init == io = "IOHandler" /\ InitCommon

\* i3pystatus(standalone=True)
InitStandalone == io = "StandaloneIO" /\ InitCommon

InRegistry(m) == \E i \in 1..Len(modules) : modules[i] = m

\* AsyncModule.registered starts the thread; Module.registered does nothing
registered(m) ==
  IF m \in PeriodicMods THEN [thread EXCEPT ![m] = "run"] ELSE thread

(* ----------------------------- registration ---------------------------- *)
\* the classes a candidate source (a Python module) may hold
Classes == {"Module", "AsyncModule", "IntervalModule", "Clock", "Battery", "Thread"}
\* the ones that are subclasses of Module
ModuleClasses == {"Module", "AsyncModule", "IntervalModule", "Clock", "Battery"}
\* ClassFinder(baseclass=Module, exclude=[Module, IntervalModule, AsyncModule])
Exclude == {"Module", "IntervalModule", "AsyncModule"}

\* ClassFinder.predicate
predicate(obj) == obj \in ModuleClasses /\ obj \notin Exclude

\* the first argument of register: a module instance or a candidate source
Instance(m) == [kind |-> "instance", m |-> m, classes |-> {}]
Source(cs) == [kind |-> "source", m |-> "none", classes |-> cs]
\* the second argument of register: an integer, or a settings mapping
IntPos(p) == [int |-> TRUE, val |-> p]
MappingPos == [int |-> FALSE, val |-> 0]

Raise(exc) == [exc |-> exc, module |-> "none", position |-> 0]

\* mutant: extra arguments next to an instance are ignored
make_instance_lenient(module, pos, args, kwargs) ==
  IF module.kind = "source" THEN Raise("NameError")
  ELSE [exc |-> "none", module |-> module.m, position |-> pos.val]

\* i3pystatus._make_instance: a classmethod, so the name self in
\* self.finder.get_class(module) is not defined when a source is given
make_instance(module, pos, args, kwargs) ==
  IF module.kind = "source" THEN Raise("NameError")
  ELSE IF args > 0 \/ kwargs THEN Raise("ValueError")
  ELSE [exc |-> "none", module |-> module.m, position |-> pos.val]

\* one register call as the log keeps it
Call(e, module, pos, args, kwargs, r) ==
  [engine |-> e, module |-> module, position |-> pos, args |-> args,
   kwargs |-> kwargs, exc |-> r.exc, got |-> r.module, at |-> r.position]

FailedCalls == Cardinality({i \in 1..Len(calls) : calls[i].exc # "none"})

\* mutant: the instance is appended before the arguments are checked
register_append_first(e, module, pos, args, kwargs) ==
  LET r == make_instance(module, pos, args, kwargs) IN
  /\ pc = "setup"
  /\ r.exc # "none" => FailedCalls < MaxFailedCalls
  /\ module.kind = "instance" => ~InRegistry(module.m)
  /\ calls' = Append(calls, Call(e, module, pos, args, kwargs, r))
  /\ IF module.kind = "instance"
     THEN /\ modules' = Append(modules, module.m)
          /\ owner' = Append(owner, e)
     ELSE UNCHANGED <<modules, owner>>
  /\ IF r.exc = "none"
     THEN /\ reg' = [module |-> r.module, position |-> r.position]
          /\ pc' = "reg_position"
     ELSE UNCHANGED <<reg, pc>>
  /\ UNCHANGED <<io, position, output, thread, line, prefix, j, src, mi, chan,
                 result, n, reads, runner, hooks, ctor>>

\* mutant: the hook runs as soon as the instance is appended
register_early_hook(e, module, pos, args, kwargs) ==
  LET r == make_instance(module, pos, args, kwargs) IN
  /\ pc = "setup"
  /\ r.exc # "none" => FailedCalls < MaxFailedCalls
  /\ r.exc = "none" => ~InRegistry(r.module)
  /\ calls' = Append(calls, Call(e, module, pos, args, kwargs, r))
  /\ IF r.exc = "none"
     THEN /\ modules' = Append(modules, r.module)
          /\ owner' = Append(owner, e)
          /\ reg' = [module |-> r.module, position |-> r.position]
          /\ thread' = registered(r.module)
          /\ pc' = "reg_position"
     ELSE UNCHANGED <<modules, owner, reg, pc, thread>>
  /\ UNCHANGED <<io, position, output, line, prefix, j, src, mi, chan,
                 result, n, reads, runner, hooks, ctor>>

\* i3pystatus.register on engine e, up to self.modules.append(module);
\* self.modules is the class attribute i3pystatus.modules on every engine
register(e, module, pos, args, kwargs) ==
  LET r == make_instance(module, pos, args, kwargs) IN
  /\ pc = "setup"
  /\ r.exc # "none" => FailedCalls < MaxFailedCalls
  /\ r.exc = "none" => ~InRegistry(r.module)
  /\ calls' = Append(calls, Call(e, module, pos, args, kwargs, r))
  /\ IF r.exc = "none"
     THEN /\ modules' = Append(modules, r.module)
          /\ owner' = Append(owner, e)
          /\ reg' = [module |-> r.module, position |-> r.position]
          /\ pc' = "reg_position"
     ELSE UNCHANGED <<modules, owner, reg, pc>>
  /\ UNCHANGED <<io, position, output, thread, line, prefix, j, src, mi, chan,
                 result, n, reads, runner, hooks, ctor>>

\* i3pystatus.register: module.position = position
RegisterPosition ==
  /\ pc = "reg_position"
  /\ position' = [position EXCEPT ![reg.module] = reg.position]
  /\ pc' = "reg_hook"
  /\ UNCHANGED <<io, modules, output, thread, line, prefix, j, src, mi, chan,
                 result, n, reads, regvars>>

\* i3pystatus.register: module.registered(self), after which register returns
RegisterHook ==
  /\ pc = "reg_hook"
  /\ thread' = registered(reg.module)
  /\ hooks' = [hooks EXCEPT ![reg.module] = @ + 1]
  /\ reg' = NoReg
  /\ pc' = "setup"
  /\ UNCHANGED <<io, modules, position, output, line, prefix, j, src, mi, chan,
                 result, n, reads, runner, owner, calls, ctor>>

\* i3pystatus.run is called on engine e: JSONIO(self.io) starts the handshake
run(e) ==
  /\ pc = "setup"
  /\ pc' = "hs_read1"
  /\ runner' = e
  /\ UNCHANGED <<io, modules, position, output, thread, line, prefix, j, src, mi,
                 chan, result, n, reads, owner, reg, hooks, calls, ctor>>

HsWritePc(k) == IF k = 1 THEN "hs_write1" ELSE "hs_write2"

\* JSONIO.__init__: self.io.read_line() of the k-th handshake line
HsRead(k, d) ==
  /\ pc = (IF k = 1 THEN "hs_read1" ELSE "hs_read2")
  /\ IF io = "StandaloneIO"
     THEN /\ n' = IncrN(n, "s1")
          /\ line' = ProtoLine(GetN(n', "s1"))
          /\ reads' = [reads EXCEPT !["s1"] = Append(@, line')]
          /\ chan' = Append(chan, Op("read", line', "line"))
          /\ pc' = HsWritePc(k)
          /\ UNCHANGED result
     ELSE LET r == read_line(d) IN
          /\ UNCHANGED <<n, reads>>
          /\ IF r.exc = "none"
             THEN /\ line' = r.line
                  /\ chan' = Append(chan, Op("read", r.line, Arrival(d)))
                  /\ pc' = HsWritePc(k)
                  /\ UNCHANGED result
             ELSE /\ chan' = Append(chan, Op("read", r.line, Arrival(d)))
                  /\ result' = r.exc
                  /\ pc' = "done"
                  /\ UNCHANGED line
  /\ UNCHANGED <<io, modules, position, output, thread, prefix, j, src, mi>>
  /\ UNCHANGED regvars

\* mutant: the engine writes the header of its own instead of echoing
HsEchoHeader(l) == proto[1]

\* the message JSONIO.__init__ hands to write_line
HsEcho(l) == l

\* JSONIO.__init__: self.io.write_line(...) of the k-th handshake line
HsWrite(k) ==
  /\ pc = HsWritePc(k)
  /\ chan' = Append(chan, Op("write", HsEcho(line), "out"))
  /\ line' = <<>>
  /\ pc' = (IF k = 1 THEN "hs_read2" ELSE "tick_read")
  /\ UNCHANGED <<io, modules, position, output, thread, prefix, j, src, mi,
                 result, n, reads>>
  /\ UNCHANGED regvars

TicksRead == Cardinality({i \in 1..Len(chan) : chan[i].op = "read"}) - 2

\* mutant: a line that does not parse is skipped
ParseSkip(l) ==
  LET p == parse_line(l) IN
  IF p.ok
  THEN /\ prefix' = p.prefix
       /\ j' = p.j
       /\ src' = InputSrc(p.j)
       /\ mi' = 1
       /\ pc' = "merge"
       /\ UNCHANGED result
  ELSE /\ pc' = "tick_read"
       /\ UNCHANGED <<result, prefix, j, src, mi>>

\* JSONIO.read: the line io.read() yielded goes through parse_line
Parse(l) ==
  LET p == parse_line(l) IN
  IF p.ok
  THEN /\ prefix' = p.prefix
       /\ j' = p.j
       /\ src' = InputSrc(p.j)
       /\ mi' = 1
       /\ pc' = "merge"
       /\ UNCHANGED result
  ELSE /\ result' = "ValueError"
       /\ pc' = "done"
       /\ UNCHANGED <<prefix, j, src, mi>>

\* IOHandler.read: the next line, or the end of the generator on EOFError
TickRead(d) ==
  /\ pc = "tick_read"
  /\ io = "IOHandler"
  /\ TicksRead < MaxTicks
  /\ LET r == read_line(d) IN
     IF r.exc = "none"
     THEN /\ chan' = Append(chan, Op("read", r.line, Arrival(d)))
          /\ Parse(r.line)
     ELSE /\ chan' = Append(chan, Op("read", r.line, Arrival(d)))
          /\ result' = "returned"
          /\ pc' = "done"
          /\ UNCHANGED <<prefix, j, src, mi>>
  /\ UNCHANGED <<io, modules, position, output, thread, line, n, reads>>
  /\ UNCHANGED regvars

\* StandaloneIO.read: sleep, then yield read_line(); an interrupt of the
\* sleep ends the generator
StandaloneRead(interrupted) ==
  /\ pc = "tick_read"
  /\ io = "StandaloneIO"
  /\ TicksRead < MaxTicks
  /\ IF interrupted
     THEN /\ chan' = Append(chan, Op("read", <<>>, "interrupt"))
          /\ result' = "returned"
          /\ pc' = "done"
          /\ UNCHANGED <<prefix, j, src, mi, n, reads>>
     ELSE /\ n' = IncrN(n, "s1")
          /\ LET l == ProtoLine(GetN(n', "s1")) IN
             /\ reads' = [reads EXCEPT !["s1"] = Append(@, l)]
             /\ chan' = Append(chan, Op("read", l, "line"))
             /\ Parse(l)
  /\ UNCHANGED <<io, modules, position, output, thread, line>>
  /\ UNCHANGED regvars

\* mutant: a module without output is left out of the array
MergeStepFilter ==
  /\ pc = "merge"
  /\ mi <= Len(modules)
  /\ IF j[1] = "arr"
     THEN /\ IF output[modules[mi]] = None
             THEN UNCHANGED <<j, src>>
             ELSE /\ j' = Arr(insert(j[2], position[modules[mi]], output[modules[mi]]))
                  /\ src' = insert(src, position[modules[mi]], modules[mi])
          /\ mi' = mi + 1
          /\ UNCHANGED <<pc, result>>
     ELSE /\ result' = "AttributeError"
          /\ pc' = "done"
          /\ UNCHANGED <<j, src, mi>>
  /\ UNCHANGED <<io, modules, position, output, thread, line, prefix, chan, n, reads>>
  /\ UNCHANGED regvars

\* mutant: the merge takes the output out of the module
MergeStepConsume ==
  /\ pc = "merge"
  /\ mi <= Len(modules)
  /\ IF j[1] = "arr"
     THEN /\ j' = Arr(insert(j[2], position[modules[mi]], output[modules[mi]]))
          /\ src' = insert(src, position[modules[mi]], modules[mi])
          /\ mi' = mi + 1
          /\ output' = [output EXCEPT ![modules[mi]] = None]
          /\ UNCHANGED <<pc, result>>
     ELSE /\ result' = "AttributeError"
          /\ pc' = "done"
          /\ UNCHANGED <<j, src, mi, output>>
  /\ UNCHANGED <<io, modules, position, thread, line, prefix, chan, n, reads>>
  /\ UNCHANGED regvars

\* i3pystatus.run: one j.insert(module.position, module.output)
MergeStep ==
  /\ pc = "merge"
  /\ mi <= Len(modules)
  /\ IF j[1] = "arr"
     THEN /\ j' = Arr(insert(j[2], position[modules[mi]], output[modules[mi]]))
          /\ src' = insert(src, position[modules[mi]], modules[mi])
          /\ mi' = mi + 1
          /\ UNCHANGED <<pc, result>>
     ELSE /\ result' = "AttributeError"
          /\ pc' = "done"
          /\ UNCHANGED <<j, src, mi>>
  /\ UNCHANGED <<io, modules, position, output, thread, line, prefix, chan, n, reads>>
  /\ UNCHANGED regvars

\* mutant: the reply is written once per module as well
TickWriteEach ==
  /\ pc = "merge"
  /\ mi > Len(modules)
  /\ chan' = chan \o [i \in 1..(1 + Len(modules)) |-> Op("write", Reply(prefix, j), "out")]
  /\ pc' = "tick_read"
  /\ UNCHANGED <<io, modules, position, output, thread, line, prefix, j, src, mi,
                 result, n, reads>>
  /\ UNCHANGED regvars

\* parse_line after the yield: write_line(prefix + json.dumps(j))
TickWrite ==
  /\ pc = "merge"
  /\ mi > Len(modules)
  /\ chan' = Append(chan, Op("write", Reply(prefix, j), "out"))
  /\ pc' = "tick_read"
  /\ UNCHANGED <<io, modules, position, output, thread, line, prefix, j, src, mi,
                 result, n, reads>>
  /\ UNCHANGED regvars

\* mutant: the compute step clears the output it had set
ThreadRunClear(m) ==
  /\ thread[m] = "run"
  /\ output' = [output EXCEPT ![m] = IF @ = None THEN Str("\"tick\"") ELSE None]
  /\ thread' = [thread EXCEPT ![m] = "sleep"]
  /\ UNCHANGED <<io, modules, position, pc, line, prefix, j, src, mi, chan,
                 result, n, reads>>
  /\ UNCHANGED regvars

\* IntervalModule.mainloop: self.run() of the "tick" module
ThreadRun(m) ==
  /\ thread[m] = "run"
  /\ output' = [output EXCEPT ![m] = Str("\"tick\"")]
  /\ thread' = [thread EXCEPT ![m] = "sleep"]
  /\ UNCHANGED <<io, modules, position, pc, line, prefix, j, src, mi, chan,
                 result, n, reads>>
  /\ UNCHANGED regvars

\* IntervalModule.mainloop: time.sleep(self.interval) returns
ThreadSleep(m) ==
  /\ thread[m] = "sleep"
  /\ thread' = [thread EXCEPT ![m] = "run"]
  /\ UNCHANGED <<io, modules, position, output, pc, line, prefix, j, src, mi,
                 chan, result, n, reads>>
  /\ UNCHANGED regvars

\* read_line on a StandaloneIO instance that no engine owns
SimReadLine(s) ==
  /\ Len(reads[s]) < MaxReads
  /\ n' = IncrN(n, s)
  /\ reads' = [reads EXCEPT ![s] = Append(@, ProtoLine(GetN(n', s)))]
  /\ UNCHANGED <<io, modules, position, output, thread, pc, line, prefix, j, src,
                 mi, chan, result>>
  /\ UNCHANGED regvars

\* positions the user passes to register in the engine specifications
EnginePositions == {0, 1}

Next ==
  \/ \E m \in {"mA", "mD"}, p \in EnginePositions :
       register("e1", Instance(m), IntPos(p), 0, FALSE)
  \/ RegisterPosition
  \/ RegisterHook
  \/ run("e1")
  \/ \E k \in 1..2 : \E d \in Deliveries(HandshakeLines(k)) : HsRead(k, d)
  \/ \E k \in 1..2 : HsWrite(k)
  \/ \E d \in Deliveries(TickLines) : TickRead(d)
  \/ MergeStep
  \/ TickWrite

Spec == Init /\ [][Next]_vars

NextStandalone ==
  \/ \E m \in PeriodicMods : register("e1", Instance(m), IntPos(0), 0, FALSE)
  \/ RegisterPosition
  \/ RegisterHook
  \/ run("e1")
  \/ \E k \in 1..2 : HsRead(k, [kind |-> "line", raw |-> <<>>])
  \/ \E k \in 1..2 : HsWrite(k)
  \/ \E b \in BOOLEAN : StandaloneRead(b)
  \/ MergeStep
  \/ TickWrite
  \/ \E m \in PeriodicMods : ThreadRun(m)
  \/ \E m \in PeriodicMods : ThreadSleep(m)
  \/ SimReadLine("s2")

SpecStandalone == InitStandalone /\ [][NextStandalone]_vars

(* ------------------------- the merge on its own ------------------------- *)
\* registration order of the merge specification
MergeOrder == <<"mA", "mB", "mD", "mC">>
Positions == (0 - MaxPos)..MaxPos
One == <<"num", <<"1">>>>
\* the i-th element of an input array: 1, 11, 111, ...
Input(i) == <<"num", [k \in 1..i |-> "1"]>>

\* the state run is in when parse_line has yielded an array and the
\* registry holds k modules registered at positions ps
InitMerge ==
  /\ io = "IOHandler"
  /\ \E k \in 0..MaxModules : \E ps \in [1..k -> Positions] :
       /\ modules = SubSeq(MergeOrder, 1, k)
       /\ position = [m \in Mods |->
                        IF \E i \in 1..k : MergeOrder[i] = m
                        THEN ps[CHOOSE i \in 1..k : MergeOrder[i] = m]
                        ELSE 0]
  /\ output = [m \in Mods |-> ClassOutput(m)]
  /\ thread = [m \in Mods |-> "unstarted"]
  /\ pc = "merge"
  /\ line = <<>>
  /\ prefix \in {<<>>, <<",">>}
  /\ \E len \in 0..MaxArrayLen : j = Arr([i \in 1..len |-> Input(i)])
  /\ src = InputSrc(j)
  /\ mi = 1
  /\ chan = <<>>
  /\ result = "running"
  /\ n = [c \in {"StandaloneIO"} |-> -1]
  /\ reads = [s \in Sims |-> <<>>]
  /\ runner = "e1"
  /\ owner = [i \in 1..Len(modules) |-> "e1"]
  /\ reg = NoReg
  /\ hooks = [m \in Mods |-> IF InRegistry(m) THEN 1 ELSE 0]
  /\ calls = <<>>
  /\ ctor = <<>>

NextMerge == MergeStep \/ TickWrite

SpecMerge == InitMerge /\ [][NextMerge]_vars

\* the merge loop of the current tick has inserted every module
Merged == pc = "merge" /\ mi > Len(modules) /\ j[1] = "arr"
InputLen == Cardinality({i \in 1..Len(src) : src[i] = "input"})
\* index (from 1) of the element the a-th registered module inserted
IndexOf(a) == CHOOSE i \in 1..Len(src) : src[i] = modules[a]
PosOf(a) == position[modules[a]]

C3_OrderedByPosition ==
  Merged =>
    \A a, b \in 1..Len(modules) :
      (a < b /\ PosOf(a) < PosOf(b)) => IndexOf(a) < IndexOf(b)

\* C3 amended: the p1 module's output is at a smaller index than the p2
\* module's when the modules from the p1 module to the p2 module were
\* registered with strictly increasing non-negative positions (in
\* particular when the two are registered one right after the other with
\* 0 <= p1 < p2); positions 0 and 1 with outputs "A" and "B" on [] give
\* ["A", "B"].
C3_IncreasingRun ==
  Merged =>
    /\ \A a, b \in 1..Len(modules) :
         (a < b /\ \A c \in a..(b - 1) : 0 <= PosOf(c) /\ PosOf(c) < PosOf(c + 1))
           => IndexOf(a) < IndexOf(b)
    /\ (modules = <<"mA", "mB">> /\ PosOf(1) = 0 /\ PosOf(2) = 1 /\ InputLen = 0)
         => j = Arr(<<Str("\"A\""), Str("\"B\"")>>)

C3_Witness ==
  /\ Merged
  /\ modules = <<"mA", "mB">>
  /\ PosOf(1) = 0 /\ PosOf(2) = 1
  /\ j = Arr(<<Str("\"A\""), Str("\"B\"")>>)

(* --------------------------- the channel log ---------------------------- *)
IsRead(i) == chan[i].op = "read"
IsWrite(i) == chan[i].op = "write"
\* the read at i met the end of the stream
EndOfStream(i) == IsRead(i) /\ chan[i].why # "line"
\* the writes that answer a tick: the handshake takes operations 1..4
TickWrites == {i \in 5..Len(chan) : IsWrite(i)}
TickReads == {i \in 5..Len(chan) : IsRead(i)}
\* JSONIO.__init__ has returned
Constructed ==
  \/ pc \in {"tick_read", "merge"}
  \/ pc = "done" /\ Len(chan) > 4
\* a line without its leading comma, if it has one
Body(l) == IF StartsWithComma(l) THEN Tail(l) ELSE l

\* C1: construction performs read 1, write 1, read 2, write 2 on the
\* channel and nothing else, each write carrying the line just read, and
\* the first tick read comes only after these four operations.
C1_Handshake ==
  /\ \A i \in 1..Min(Len(chan), 4) :
       IF i % 2 = 1 THEN IsRead(i)
       ELSE /\ IsWrite(i)
            /\ IsRead(i - 1) /\ ~EndOfStream(i - 1)
            /\ chan[i].line = chan[i - 1].line
  /\ Constructed => Len(chan) >= 4
  /\ Len(chan) = 4 => pc = "tick_read"
  /\ Len(chan) >= 5 => IsRead(5)

C1_Witness ==
  /\ pc = "tick_read"
  /\ Len(chan) = 4
  /\ chan[1].line = proto[1] /\ chan[2].line = proto[1]
  /\ chan[3].line = <<"[">> /\ chan[4].line = <<"[">>

\* C5: end-of-stream on a tick read ends run normally; it is the last
\* operation on the channel, nothing is written for that tick, and every
\* earlier tick read is followed by one whole written line.
C5_TickEndOfStream ==
  \A i \in TickReads :
    EndOfStream(i) =>
      /\ i = Len(chan)
      /\ pc = "done" /\ result = "returned"
      /\ \A k \in 5..(i - 1) :
           IF k % 2 = 1 THEN IsRead(k) /\ ~EndOfStream(k)
           ELSE /\ IsWrite(k)
                /\ StartsWithComma(chan[k].line) = StartsWithComma(chan[k - 1].line)
                /\ loads(Body(chan[k].line)).ok

C5_Witness ==
  /\ Len(chan) = 7
  /\ IsWrite(6)
  /\ EndOfStream(7) /\ chan[7].why = "blank"
  /\ result = "returned"

\* C6 as claimed: end-of-stream never ends run with a propagated error,
\* on whichever read it occurs.
C6_EndOfStreamNeverAnError ==
  \A i \in 1..Len(chan) : EndOfStream(i) => result = "returned"

\* C7: a tick line that does not parse ends run with the parse error; the
\* read of that line is the last operation on the channel, so nothing is
\* written for it and no further line is read, and the answers to the
\* earlier ticks stand.
C7_ParseErrorIsFatal ==
  \A i \in TickReads :
    (~EndOfStream(i) /\ ~loads(Body(chan[i].line)).ok) =>
      /\ i = Len(chan)
      /\ pc = "done" /\ result = "ValueError"
      /\ \A k \in 5..(i - 1) : IF k % 2 = 1 THEN IsRead(k) ELSE IsWrite(k)

C7_Witness ==
  /\ Len(chan) = 7
  /\ IsWrite(6)
  /\ chan[7] = Op("read", <<",", ",", "[", "]">>, "line")
  /\ result = "ValueError"

\* C8: the answer to a tick starts with a comma exactly when the line of
\* that tick did, whatever the earlier ticks were, and exactly one leading
\* comma is removed before parsing: what follows it must parse.
C8_CommaPrefix ==
  \A i \in TickWrites :
    /\ IsRead(i - 1)
    /\ StartsWithComma(chan[i].line) = StartsWithComma(chan[i - 1].line)
    /\ loads(Body(chan[i - 1].line)).ok
    /\ loads(Body(chan[i].line)).ok

\* a first tick without a comma, then one with a comma, with a module
\* registered
C8_Witness ==
  /\ Len(chan) = 8
  /\ modules # <<>>
  /\ ~StartsWithComma(chan[5].line) /\ ~StartsWithComma(chan[6].line)
  /\ StartsWithComma(chan[7].line) /\ StartsWithComma(chan[8].line)
  /\ IsWrite(8)

\* C9 as claimed: with an empty registry the line written back is exactly
\* the line read.
C9_ExactRoundTrip ==
  modules = <<>> => \A i \in TickWrites : chan[i].line = chan[i - 1].line

XLine == <<",", "[", "{", "\"x\"", ":", "1", "}", "]">>
XLineDumped == <<",", "[", "{", "\"x\"", ":", " ", "1", "}", "]">>

\* C9 amended: with an empty registry the line written back has the prefix
\* of the line read and parses to the same value; it is that value in
\* json.dumps form (", " between items, ": " after a key, no other
\* whitespace), so it equals the line read exactly when the line read is
\* already in that form: [] gives [], ,[] gives ,[], but ,[{"x":1}] gives
\* ,[{"x": 1}].
C9_ValueRoundTrip ==
  modules = <<>> =>
    \A i \in TickWrites :
      LET rd == chan[i - 1].line  wr == chan[i].line IN
      /\ StartsWithComma(wr) = StartsWithComma(rd)
      /\ loads(Body(wr)).ok
      /\ loads(Body(wr)).val = loads(Body(rd)).val
      /\ (\A k \in 1..Len(Body(wr)) :
            Body(wr)[k] = " " => k > 1 /\ Body(wr)[k - 1] \in {",", ":"})
      /\ rd = <<"[", "]">> => wr = rd
      /\ rd = <<",", "[", "]">> => wr = rd
      /\ rd = XLineDumped => wr = rd
      /\ rd = XLine => wr = XLineDumped

C9_Witness ==
  /\ modules = <<>>
  /\ Len(chan) = 8
  /\ chan[5].line = <<"[", "]">> /\ chan[6].line = <<"[", "]">>
  /\ chan[7].line = XLine /\ chan[8].line = XLineDumped

(* ------------------------- the standalone engine ------------------------ *)
Tick == Str("\"tick\"")
\* element 0 of the array written at operation i of the channel
First(i) == loads(Body(chan[i].line)).val[2][1]

\* C4 as claimed: with the periodic module registered before run, every
\* tick output written has "tick" at index 0, under every interleaving.
C4_AlwaysTick ==
  modules = <<"mT">> => \A i \in TickWrites : First(i) = Tick

\* C4 amended: with the periodic module registered before run, each of
\* the first two tick outputs has at index 0 the module's output as it was
\* at that tick's merge: "tick" once the module's compute step has run,
\* the initial empty output (null) if the merge came first; once one tick
\* output has "tick", so does every later one.
C4_TickOrInitial ==
  modules = <<"mT">> =>
    /\ \A i \in TickWrites :
         /\ First(i) \in {Tick, None}
         /\ First(i) = Tick => output["mT"] = Tick
         /\ First(i) = Tick => \A k \in TickWrites : k > i => First(k) = Tick
    /\ (pc = "merge" /\ mi = 2) =>
         /\ j[2][1] \in {Tick, None}
         /\ output["mT"] = None => j[2][1] = None

\* the first tick was merged before the compute step ran, the second after
C4_Witness ==
  /\ modules = <<"mT">>
  /\ Len(chan) = 8
  /\ IsWrite(6) /\ First(6) = None
  /\ IsWrite(8) /\ First(8) = Tick

Expected(k) ==
  IF k = 1 THEN <<"{", "\"version\"", ":", " ", "1", "}">>
  ELSE IF k = 2 THEN <<"[">>
  ELSE IF k = 3 THEN <<"[", "]">>
  ELSE <<",", "[", "]">>

\* C10: on every simulator the k-th read returns {"version": 1}, [, [] and
\* then ,[] for every k >= 4, whatever the other simulator has read; the
\* sequence of the engine's simulator ends only by an interrupt of the wait.
C10_SimulatorSequence ==
  /\ \A s \in Sims : \A k \in 1..Len(reads[s]) : reads[s][k] = Expected(k)
  /\ io = "StandaloneIO" =>
       /\ result \in {"running", "returned"}
       /\ result = "returned" => chan[Len(chan)] = Op("read", <<>>, "interrupt")
       /\ \A i \in 1..Len(chan) : EndOfStream(i) => chan[i].why = "interrupt"

C10_Witness ==
  /\ Len(reads["s1"]) = 4
  /\ Len(reads["s2"]) = 5
  /\ reads["s2"][5] = <<",", "[", "]">>
  /\ reads["s1"][3] = <<"[", "]">>

(* ----------------------- registration on two engines -------------------- *)
\* candidate sources: one eligible class, two, none
Sources ==
  { {"Clock", "Module", "Thread"},
    {"Clock", "Battery", "IntervalModule"},
    {"Module", "AsyncModule", "Thread"} }

Eligible(cs) == {c \in cs : predicate(c)}

\* the one line the host sends after the handshake in this specification
RegisterTickLines == {<<"[", "]">>}

\* register(instance, 1, "x") and register(instance, 1, format="x")
ExtraArgCalls == {<<"mA", 1, FALSE>>, <<"mT", 0, TRUE>>}
\* register(source) and, for the source with one eligible class,
\* register(source, {...})
SourcePos(cs) == IF Cardinality(Eligible(cs)) = 1 THEN MappingPos ELSE IntPos(0)

NextRegister ==
  \/ \E e \in Engines, m \in {"mA", "mT"} :
       register(e, Instance(m), IntPos(1), 0, FALSE)
  \/ \E x \in ExtraArgCalls : register("e1", Instance(x[1]), IntPos(1), x[2], x[3])
  \/ \E cs \in Sources : register("e1", Source(cs), SourcePos(cs), 0, FALSE)
  \/ RegisterPosition
  \/ RegisterHook
  \/ \E e \in Engines : run(e)
  \/ \E k \in 1..2 : HsRead(k, [kind |-> "line", raw |-> proto[k]])
  \/ \E k \in 1..2 : HsWrite(k)
  \/ \E d \in Deliveries(RegisterTickLines) : TickRead(d)
  \/ MergeStep
  \/ TickWrite
  \/ ThreadRun("mT")
  \/ ThreadSleep("mT")

SpecRegister == Init /\ [][NextRegister]_vars

\* the failing and the successful calls of the log
Failed(i) == calls[i].exc # "none"
\* the modules of the successful calls, in call order
RECURSIVE Succeeded(_)
Succeeded(cs) ==
  IF cs = <<>> THEN <<>>
  ELSE (IF Head(cs).exc = "none" THEN <<Head(cs).got>> ELSE <<>>) \o Succeeded(Tail(cs))
\* the position the successful call for m resolved to
Resolved(m) ==
  calls[CHOOSE i \in 1..Len(calls) : calls[i].exc = "none" /\ calls[i].got = m].at

\* C11 as claimed: register with a source that holds two eligible classes
\* fails with a configuration error of the ambiguous-module kind and
\* registers nothing.
C11_AmbiguousSource ==
  \A i \in 1..Len(calls) :
    (calls[i].module.kind = "source"
       /\ Cardinality(Eligible(calls[i].module.classes)) = 2)
      => calls[i].exc = "ConfigurationError"

\* C12 as claimed: register(source, x) with one eligible class, x not an
\* integer and no further positional argument constructs the class and
\* appends the instance to the Registry with position 0.
C12_MappingAsPosition ==
  \A i \in 1..Len(calls) :
    (calls[i].module.kind = "source"
       /\ Cardinality(Eligible(calls[i].module.classes)) = 1
       /\ ~calls[i].position.int /\ calls[i].args = 0)
      => calls[i].exc = "none" /\ calls[i].at = 0

C17_RegistrationOrder ==
  /\ modules = Succeeded(calls)
  /\ pc = "reg_position" =>
       /\ modules[Len(modules)] = reg.module
       /\ hooks[reg.module] = 0 /\ thread[reg.module] = "unstarted"
  /\ pc = "reg_hook" =>
       /\ modules[Len(modules)] = reg.module
       /\ position[reg.module] = reg.position
       /\ hooks[reg.module] = 0 /\ thread[reg.module] = "unstarted"
  /\ \A m \in Mods :
       /\ hooks[m] <= 1
       /\ thread[m] # "unstarted" => hooks[m] = 1
       /\ hooks[m] = 1 => InRegistry(m) /\ position[m] = Resolved(m)
       /\ (InRegistry(m) /\ reg.module # m) => hooks[m] = 1
       /\ (m \in PeriodicMods /\ hooks[m] = 1) => thread[m] # "unstarted"

\* both instances registered, the periodic one first, and its thread has
\* computed an output
C17_Witness ==
  /\ modules = <<"mT", "mA">>
  /\ pc = "setup"
  /\ hooks["mT"] = 1 /\ hooks["mA"] = 1
  /\ position["mT"] = 1 /\ position["mA"] = 1
  /\ thread["mT"] = "sleep"

\* C18: a register call that fails leaves the Registry, every position,
\* every hook count and every thread as they were, and register can be
\* called again.
C18_FailedRegisterFrame ==
  [][(Len(calls') > Len(calls) /\ calls'[Len(calls')].exc # "none")
       => /\ modules' = modules /\ owner' = owner
          /\ position' = position
          /\ hooks' = hooks /\ thread' = thread
          /\ pc' = "setup"]_vars

\* a registration, a failed call, and a registration after it
C18_Witness ==
  /\ Len(calls) = 3
  /\ ~Failed(1) /\ Failed(2) /\ ~Failed(3)
  /\ modules = <<calls[1].got, calls[3].got>>
  /\ pc = "setup"
  /\ hooks[calls[1].got] = 1 /\ hooks[calls[3].got] = 1

\* self.modules on engine e: no engine has a modules attribute of its
\* own, so the name resolves to the class attribute
Registry(e) == modules

\* C20 as claimed: a module registered on one engine is in that engine's
\* Registry only, and the merge run by an engine inserts only outputs of
\* modules registered on it.
C20_RegistryIsolation ==
  /\ \A e \in Engines : \A i \in 1..Len(Registry(e)) : owner[i] = e
  /\ \A i \in 1..Len(src) :
       src[i] # "input" =>
         \E k \in 1..Len(modules) : modules[k] = src[i] /\ owner[k] = runner

----------------------------------------------------------------------------
\* Module.__init__ as a function of the class declaration and the call

\* setting names a class may declare or a caller may pass
Keys == {"format", "interval", "foo"}

\* sequences without a repeated element: the keys of a dict in iteration order
DistinctSeqs(S, k) ==
  {q \in SeqsUpTo(S, k) : \A a, b \in 1..Len(q) : a # b => q[a] # q[b]}

\* the `settings` tuple of a class: plain names, or (name, docstring) pairs
SettingsTuple(names, pairs) == {[tuple |-> pairs, name |-> k] : k \in names}

\* lines 32-33 and the test `key in self.settings`: a tuple of pairs is
\* unzipped into its names, a tuple of names is used as it is
SettingNames(settings) == {x.name : x \in settings}

Range(q) == {q[i] : i \in 1..Len(q)}

\* lines 44-49, the loop over kwargs.items(): the keys set so far, and the
\* first key that is not a setting
RECURSIVE SetKeys(_, _, _)
SetKeys(keys, names, seen) ==
  IF keys = <<>> THEN [key |-> "none", set |-> seen]
  ELSE IF Head(keys) \in names
       THEN SetKeys(Tail(keys), names, seen \cup {Head(keys)})
       ELSE [key |-> Head(keys), set |-> seen]

\* a construction that compares the number of supplied keys with the number
\* of required ones
ModuleInitCount(settings, required, args, kwargs) ==
  LET names == SettingNames(settings)
      req == Range(required)
      kw == IF Len(args) = 1 /\ Len(kwargs) = 0 THEN args[1] ELSE kwargs
      loop == SetKeys(kw, names, {})
  IN  IF loop.key # "none"
      THEN [exc |-> "ConfigurationError", key |-> loop.key, missing |-> {},
            attrs |-> loop.set, init |-> FALSE]
      ELSE IF Cardinality(loop.set) # Cardinality(req)
           THEN [exc |-> "ConfigurationError", key |-> "none",
                 missing |-> req \ loop.set, attrs |-> loop.set, init |-> FALSE]
           ELSE [exc |-> "none", key |-> "none", missing |-> {},
                 attrs |-> loop.set, init |-> TRUE]

\* Module.__init__(self, *args, **kwargs)
ModuleInit(settings, required, args, kwargs) ==
  LET names == SettingNames(settings)
      req == Range(required)
      kw == IF Len(args) = 1 /\ Len(kwargs) = 0 THEN args[1] ELSE kwargs
      loop == SetKeys(kw, names, {})
      got == loop.set \cap req
  IN  IF loop.key # "none"
      THEN [exc |-> "ConfigurationError", key |-> loop.key, missing |-> {},
            attrs |-> loop.set, init |-> FALSE]
      ELSE IF Cardinality(got) # Cardinality(req)
           THEN [exc |-> "ConfigurationError", key |-> "none",
                 missing |-> req \ got, attrs |-> loop.set, init |-> FALSE]
           ELSE [exc |-> "none", key |-> "none", missing |-> {},
                 attrs |-> loop.set, init |-> TRUE]

NoResult == [exc |-> "pending", key |-> "none", missing |-> {}, attrs |-> {}, init |-> FALSE]

\* a class declaration and a constructor call: cls(**d) or cls(d)
InitConstruct ==
  /\ io = "IOHandler"
  /\ modules = <<>>
  /\ position = [m \in Mods |-> 0]
  /\ output = [m \in Mods |-> ClassOutput(m)]
  /\ thread = [m \in Mods |-> "unstarted"]
  /\ pc = "setup"
  /\ line = <<>>
  /\ prefix = <<>>
  /\ j = None
  /\ src = <<>>
  /\ mi = 0
  /\ chan = <<>>
  /\ result = "running"
  /\ n = [c \in {"StandaloneIO"} |-> -1]
  /\ reads = [s \in Sims |-> <<>>]
  /\ runner = "none"
  /\ owner = <<>>
  /\ reg = NoReg
  /\ hooks = [m \in Mods |-> 0]
  /\ calls = <<>>
  /\ \E names \in SUBSET Keys, pairs \in BOOLEAN,
        required \in SeqsUpTo(Keys, MaxKeys),
        d \in DistinctSeqs(Keys, MaxKeys), positional \in BOOLEAN :
       ctor = [settings |-> SettingsTuple(names, pairs),
               required |-> required,
               args |-> IF positional THEN <<d>> ELSE <<>>,
               kwargs |-> IF positional THEN <<>> ELSE d,
               done |-> FALSE, r |-> NoResult]

Construct ==
  /\ ~ctor.done
  /\ ctor' = [ctor EXCEPT !.done = TRUE,
                !.r = ModuleInit(ctor.settings, ctor.required, ctor.args, ctor.kwargs)]
  /\ UNCHANGED <<io, modules, position, output, thread, pc, line, prefix, j, src,
                 mi, chan, result, n, reads, runner, owner, reg, hooks, calls>>

NextConstruct == Construct

SpecConstruct == InitConstruct /\ [][NextConstruct]_vars

\* the keys the call supplies, in order, and the declaration's sets
Supplied == IF Len(ctor.args) = 1 THEN ctor.args[1] ELSE ctor.kwargs
Recognized == {x.name : x \in ctor.settings}
Required == Range(ctor.required)
Unrecognized == {i \in 1..Len(Supplied) : Supplied[i] \notin Recognized}

\* C14: construction succeeds exactly when every supplied key is a setting
\* and every required key is supplied; with all supplied keys recognized
\* and a required key omitted it raises a configuration error whose
\* missing set is required minus supplied; with an unrecognized supplied
\* key it raises a configuration error naming that key (the first such key
\* in the order of the mapping).
C14_ConstructionAcceptance ==
  ctor.done =>
    /\ ctor.r.exc = "none" <=>
         (Range(Supplied) \subseteq Recognized /\ Required \subseteq Range(Supplied))
    /\ ctor.r.exc = "none" => ctor.r.init /\ ctor.r.attrs = Range(Supplied)
    /\ (Range(Supplied) \subseteq Recognized /\ ~(Required \subseteq Range(Supplied))) =>
         /\ ctor.r.exc = "ConfigurationError"
         /\ ctor.r.key = "none"
         /\ ctor.r.missing = Required \ Range(Supplied)
    /\ Unrecognized # {} =>
         /\ ctor.r.exc = "ConfigurationError"
         /\ ctor.r.missing = {}
         /\ ctor.r.key = Supplied[CHOOSE i \in Unrecognized : \A k \in Unrecognized : i <= k]

\* a required key listed twice and supplied once, next to an optional key:
\* the construction succeeds
C14_Witness ==
  /\ ctor.done
  /\ ctor.required = <<"format", "format">>
  /\ Supplied = <<"interval", "format">>
  /\ ctor.r.exc = "none"

\* the sequence q without its i-th element
Remove(q, i) == SubSeq(q, 1, i - 1) \o SubSeq(q, i + 1, Len(q))
IsInput(v) == v[1] = "num"

\* C15: the merge filters nothing: each registry entry adds exactly one
\* element, equal to the module's output at that moment (None included),
\* and leaves the other elements in their order; so the merged array has
\* input length + k elements and the input elements keep their order.
C15_NoFiltering ==
  /\ [](pc = "merge" =>
         /\ Len(j[2]) = Len(SelectSeq(j[2], IsInput)) + (mi - 1)
         /\ SelectSeq(j[2], IsInput)
              = [i \in 1..Len(SelectSeq(j[2], IsInput)) |-> Input(i)])
  /\ [][(pc = "merge" /\ mi <= Len(modules) /\ j[1] = "arr") =>
          /\ mi' = mi + 1
          /\ Len(j'[2]) = Len(j[2]) + 1
          /\ \E i \in 1..Len(j'[2]) :
               /\ j'[2][i] = output[modules[mi]]
               /\ Remove(j'[2], i) = j[2]]_vars

\* three modules, the third without output, merged into [1, 11]
C15_Witness ==
  /\ Merged
  /\ modules = <<"mA", "mB", "mD">>
  /\ j = Arr(<<Str("\"A\""), Input(1), None, Input(2), Str("\"B\"")>>)

\* C16: after the handshake the channel operations alternate read, write,
\* read, write, ...; the merge of a tick lies between its read and its
\* write; the reply to a tick is written before the next line is read; the
\* lines written never outnumber the lines read; and every merged tick has
\* exactly one written line.
C16_TickSequencing ==
  /\ \A i \in 5..Len(chan) : IF i % 2 = 1 THEN IsRead(i) ELSE IsWrite(i)
  /\ \A i \in TickReads : i < Len(chan) => ~EndOfStream(i) /\ IsWrite(i + 1)
  /\ Cardinality(TickWrites) <= Cardinality(TickReads)
  /\ Cardinality(TickReads) <= Cardinality(TickWrites) + 1
  /\ pc = "merge" =>
       /\ Len(chan) >= 5 /\ IsRead(Len(chan)) /\ ~EndOfStream(Len(chan))
       /\ Cardinality(TickWrites) + 1 = Cardinality(TickReads)
  /\ (pc = "tick_read" /\ Len(chan) >= 4) =>
       Cardinality(TickWrites) = Cardinality(TickReads)

\* two ticks read, merged with two modules and answered
C16_Witness ==
  /\ pc = "tick_read"
  /\ Len(chan) = 8
  /\ Len(modules) = 2
  /\ IsRead(5) /\ IsWrite(6) /\ IsRead(7) /\ IsWrite(8)

\* the engine is inside run
Running == pc \notin {"setup", "reg_position", "reg_hook"}
\* a step of run: the engine's position or data moves
RunStep == Running /\ <<pc, j, mi, chan, result>>' # <<pc, j, mi, chan, result>>

\* C19: a step of run, the merge included, changes no module's output or
\* position and not the Registry; a position changes only in register's
\* assignment, and only that module's; an output changes only in a step of
\* the module's own thread; the Registry changes only by register's append;
\* and the value a merge step inserts is the output the module holds at
\* that step, which is its initial value or one its thread wrote.
C19_EngineFrame ==
  /\ [](\A m \in Mods : output[m] \in {ClassOutput(m), Str("\"tick\"")})
  /\ [][/\ RunStep => UNCHANGED <<output, position, modules>>
        /\ position' # position =>
             /\ pc = "reg_position"
             /\ \A m \in Mods \ {reg.module} : position'[m] = position[m]
        /\ output' # output =>
             \E m \in Mods :
               /\ thread[m] = "run" /\ thread'[m] = "sleep"
               /\ \A k \in Mods \ {m} : output'[k] = output[k]
        /\ modules' # modules =>
             /\ pc = "setup" /\ pc' = "reg_position"
             /\ SubSeq(modules', 1, Len(modules)) = modules
        /\ (pc = "merge" /\ mi' = mi + 1) =>
             j'[2] = insert(j[2], position'[modules'[mi]], output'[modules'[mi]])
       ]_vars

\* the thread of the periodic module wrote its output before the merge of
\* a tick, and the merge inserted that value
C19_Witness ==
  /\ Merged
  /\ modules = <<"mT">>
  /\ position["mT"] = 1
  /\ output["mT"] = Str("\"tick\"")
  /\ j = Arr(<<Str("\"tick\"")>>)

====
